---- MODULE Spec2Model ----
(***************************************************************************)
(* LocateFinderWSL: a Tk front-end that runs `wsl locate` in a background  *)
(* thread per search and hands the outcome to the UI thread through a      *)
(* Queue that check_queue polls every 100 ms.                              *)
(*                                                                         *)
(* Text is modelled as a sequence of characters (stdout, paths) so that    *)
(* strip/split/filter are computed as Python computes them.  The status    *)
(* line is the sequence of the pieces its f-string concatenates.           *)
(***************************************************************************)
EXTENDS Integers, Sequences, FiniteSets, TLC

\* ------------------------------------------------------------- bounds
\* Number of worker threads that may be started in one run of the model.
MaxSearches == 2
\* Longest captured stdout, in characters, that WorkerSpec explores.
MaxStdoutLen == 4

\* ------------------------------------------------------------- inputs
\* Contents the user may give the search entry: empty, or a term.
Terms == {"", "x"}
\* Characters of the external tool's output: a path character, a blank, a newline.
Chars == {"a", " ", "\n"}
\* Exit statuses of the external process (locate exits 1 when nothing matches).
ReturnCodes == {0, 1}

RECURSIVE StringsUpTo(_)
StringsUpTo(n) ==
    IF n = 0 THEN {<<>>}
    ELSE LET shorter == StringsUpTo(n - 1)
         IN  shorter \cup {Append(s, c) : s \in {x \in shorter : Len(x) = n - 1}, c \in Chars}

\* Every captured stdout of at most MaxStdoutLen characters.
Stdouts == StringsUpTo(MaxStdoutLen)

\* The captured stdouts Spec draws from: no match, and one path per line.
SampleStdouts == {<<>>, <<"a", "\n">>, <<"a", "\n", "a", "\n">>}

\* str(e) of the exceptions subprocess.run raises.
SpawnErrorText == "[WinError 2] The system cannot find the file specified"
DecodeErrorText == "'utf-8' codec can't decode byte 0xff in position 0: invalid start byte"

\* ------------------------------------------------------------- state
VARIABLES
    search_var,      \* tk.StringVar of the search entry
    ignore_case,     \* tk.BooleanVar
    exist_only,      \* tk.BooleanVar
    basename_only,   \* tk.BooleanVar
    results_list,    \* rows of the Listbox, top to bottom
    progress_bar,    \* [gridded, running] of the Progressbar
    search_button,   \* state of the Search button: "normal" or "disabled"
    status_var,      \* tk.StringVar of the status label
    queue,           \* the Queue: messages <<type, data>>, oldest first
    threads,         \* live worker threads: id -> locals of perform_search
    started,         \* number of threads started so far
    selection,       \* results_list.curselection(): the selected row, 0 for none
    scheduled,       \* check_queue callbacks root.after has pending
    opened,          \* history: what the latest step did if it was
                     \* open_selected_file: the commands it ran, wslpath's exit
                     \* status (-1: none), whether an exception left the handler
    last             \* history: <<the handler the latest step ran ("start_search",
                     \* "check_queue", "open_selected_file", or "none" when the step was user input or
                     \* a thread's), the number of messages it found pending>>

view == <<results_list, progress_bar, search_button, status_var>>
vars == <<search_var, ignore_case, exist_only, basename_only, results_list,
          progress_bar, search_button, status_var, queue, threads, started,
          selection, scheduled, opened, last>>

\* ------------------------------------------------------------- text
IsSpace(c) == c \in {" ", "\n"}

RECURSIVE LStrip(_)
LStrip(s) == IF s # <<>> /\ IsSpace(Head(s)) THEN LStrip(Tail(s)) ELSE s

RECURSIVE RStrip(_)
RStrip(s) ==
    IF s # <<>> /\ IsSpace(s[Len(s)]) THEN RStrip(SubSeq(s, 1, Len(s) - 1)) ELSE s

\* str.strip()
Strip(s) == RStrip(LStrip(s))

\* str.split('\n'): always at least one piece
RECURSIVE Split(_)
Split(s) ==
    IF \A i \in 1..Len(s) : s[i] # "\n" THEN <<s>>
    ELSE LET k == CHOOSE i \in 1..Len(s) :
                      s[i] = "\n" /\ \A j \in 1..(i - 1) : s[j] # "\n"
         IN  <<SubSeq(s, 1, k - 1)>> \o Split(SubSeq(s, k + 1, Len(s)))

IsNonEmpty(p) == p # <<>>

\* paths = result.stdout.strip().split('\n'); paths = [p for p in paths if p]
ParsePaths(stdout) == SelectSeq(Split(Strip(stdout)), IsNonEmpty)

\* ------------------------------------------------------------- Init
\* The latest step was not open_selected_file.
NotOpened == [ran |-> <<>>, returncode |-> -1, escaped |-> FALSE]

\* What a step that is neither open_selected_file nor check_queue leaves alone.
OtherHandlers == opened' = NotOpened /\ UNCHANGED scheduled

Init ==
    /\ search_var = ""
    /\ ignore_case = TRUE
    /\ exist_only = TRUE
    /\ basename_only = FALSE
    /\ results_list = <<>>
    /\ progress_bar = [gridded |-> FALSE, running |-> FALSE]
    /\ search_button = "normal"
    /\ status_var = <<>>
    /\ queue = <<>>
    /\ threads = <<>>
    /\ started = 0
    /\ selection = 0
    /\ scheduled = 1
    /\ opened = NotOpened
    /\ last = <<"check_queue", 0>>

\* ------------------------------------------------------------- user input
\* The user edits the search entry (ttk.Entry bound to search_var).
SetSearchVar(t) ==
    /\ t # search_var
    /\ search_var' = t
    /\ last' = <<"none", 0>>
    /\ OtherHandlers
    /\ UNCHANGED <<ignore_case, exist_only, basename_only, results_list, progress_bar,
                   search_button, status_var, queue, threads, started, selection>>

\* The user clicks one of the three Checkbuttons.
ToggleIgnoreCase ==
    /\ ignore_case' = ~ignore_case
    /\ last' = <<"none", 0>>
    /\ OtherHandlers
    /\ UNCHANGED <<search_var, exist_only, basename_only, results_list, progress_bar,
                   search_button, status_var, queue, threads, started, selection>>

ToggleExistOnly ==
    /\ exist_only' = ~exist_only
    /\ last' = <<"none", 0>>
    /\ OtherHandlers
    /\ UNCHANGED <<search_var, ignore_case, basename_only, results_list, progress_bar,
                   search_button, status_var, queue, threads, started, selection>>

ToggleBasenameOnly ==
    /\ basename_only' = ~basename_only
    /\ last' = <<"none", 0>>
    /\ OtherHandlers
    /\ UNCHANGED <<search_var, ignore_case, exist_only, results_list, progress_bar,
                   search_button, status_var, queue, threads, started, selection>>

\* ------------------------------------------------------------- start_search
\* A thread that has just been created: threading.Thread(target=perform_search,
\* args=(search_term,)); it has not executed a statement of perform_search yet.
\* Locals: term (search_term), cmd, got (what the three .get() calls returned, in
\* order), and the outcome of subprocess.run: kind "completed" with returncode and
\* stdout, or kind "raised" with text = str(e).  at_start is history: the values
\* of the three checkboxes when start_search created the thread.
NewThread(term) ==
    [pc |-> "ignore_case", term |-> term, cmd |-> <<>>, got |-> <<>>,
     kind |-> "none", returncode |-> 0, stdout |-> <<>>, text |-> "",
     at_start |-> <<ignore_case, exist_only, basename_only>>]

\* RejectEmptyTerm as it would be with the list cleared before the term is tested.
RejectEmptyTermClears ==
    /\ status_var' = <<"Please enter a search term">>
    /\ results_list' = <<>>
    /\ selection' = 0
    /\ UNCHANGED <<progress_bar, search_button, queue, threads, started>>

\* if not search_term: self.status_var.set(...); return
RejectEmptyTerm ==
    /\ status_var' = <<"Please enter a search term">>
    /\ UNCHANGED <<results_list, progress_bar, search_button, queue, threads, started,
                   selection>>

\* BeginSearch as it would be without self.results_list.delete(0, tk.END).
BeginSearchKeepsList ==
    /\ started < MaxSearches
    /\ progress_bar' = [gridded |-> TRUE, running |-> TRUE]
    /\ search_button' = "disabled"
    /\ status_var' = <<"Searching...">>
    /\ started' = started + 1
    /\ threads' = threads @@ ((started + 1) :> NewThread(search_var))
    /\ UNCHANGED <<queue, results_list, selection>>

\* BeginSearch as it would be without search_button.configure(state='disabled').
BeginSearchButtonStaysEnabled ==
    /\ started < MaxSearches
    /\ results_list' = <<>>
    /\ selection' = 0
    /\ progress_bar' = [gridded |-> TRUE, running |-> TRUE]
    /\ status_var' = <<"Searching...">>
    /\ started' = started + 1
    /\ threads' = threads @@ ((started + 1) :> NewThread(search_var))
    /\ UNCHANGED <<queue, search_button>>

\* Clear previous results, show progress, disable the button, start the thread.
BeginSearch ==
    /\ started < MaxSearches
    /\ results_list' = <<>>
    /\ selection' = 0
    /\ progress_bar' = [gridded |-> TRUE, running |-> TRUE]
    /\ search_button' = "disabled"
    /\ status_var' = <<"Searching...">>
    /\ started' = started + 1
    /\ threads' = threads @@ ((started + 1) :> NewThread(search_var))
    /\ UNCHANGED queue

StartSearch ==
    /\ IF search_var = "" THEN RejectEmptyTerm ELSE BeginSearch
    /\ last' = <<"start_search", 0>>
    /\ OtherHandlers
    /\ UNCHANGED <<search_var, ignore_case, exist_only, basename_only>>

\* ttk.Button(command=self.start_search): a disabled button does not invoke it.
ClickSearchButton ==
    /\ search_button = "normal"
    /\ StartSearch

\* search_entry.bind('<Return>', lambda e: self.start_search()): the entry is
\* never disabled, so the binding fires whatever the button's state.
PressReturn == StartSearch

\* ------------------------------------------------------------- perform_search
CmdStart == <<"wsl", "locate">>

\* AppendIf as cmd.insert(2, flag): the flag goes in front of the flags already there.
AppendIfFront(cmd, cond, flag) ==
    IF cond THEN SubSeq(cmd, 1, 2) \o <<flag>> \o SubSeq(cmd, 3, Len(cmd)) ELSE cmd

\* if <toggle>.get(): cmd.append(flag)
AppendIf(cmd, cond, flag) == IF cond THEN Append(cmd, flag) ELSE cmd

\* cmd.append(search_term)
AppendTerm(cmd, term) == Append(cmd, term)

ThreadUpdate(t, r) == [threads EXCEPT ![t] = r]
ThreadExit(t) == [u \in DOMAIN threads \ {t} |-> threads[u]]

WorkerFrame ==
    /\ last' = <<"none", 0>>
    /\ OtherHandlers
    /\ UNCHANGED <<search_var, ignore_case, exist_only, basename_only, results_list,
                   progress_bar, search_button, status_var, started, selection>>

\* cmd = ['wsl', 'locate']; if self.ignore_case.get(): cmd.append('--ignore-case')
ReadIgnoreCase(t) ==
    /\ threads[t].pc = "ignore_case"
    /\ threads' = ThreadUpdate(t, [threads[t] EXCEPT
                      !.got = Append(@, ignore_case),
                      !.cmd = AppendIf(CmdStart, ignore_case, "--ignore-case"),
                      !.pc = "exist_only"])
    /\ UNCHANGED queue
    /\ WorkerFrame

\* if self.exist_only.get(): cmd.append('--existing')
ReadExistOnly(t) ==
    /\ threads[t].pc = "exist_only"
    /\ threads' = ThreadUpdate(t, [threads[t] EXCEPT
                      !.got = Append(@, exist_only),
                      !.cmd = AppendIf(@, exist_only, "--existing"),
                      !.pc = "basename_only"])
    /\ UNCHANGED queue
    /\ WorkerFrame

\* if self.basename_only.get(): cmd.append('--basename'); cmd.append(search_term)
ReadBasenameOnly(t) ==
    /\ threads[t].pc = "basename_only"
    /\ threads' = ThreadUpdate(t, [threads[t] EXCEPT
                      !.got = Append(@, basename_only),
                      !.cmd = AppendTerm(AppendIf(@, basename_only, "--basename"),
                                         threads[t].term),
                      !.pc = "run"])
    /\ UNCHANGED queue
    /\ WorkerFrame

\* subprocess.run(cmd, capture_output=True, text=True, encoding='utf-8') returns a
\* CompletedProcess whatever the exit status (no check=True).
RunCompletes(t, outs) ==
    /\ threads[t].pc = "run"
    /\ \E rc \in ReturnCodes, out \in outs :
           threads' = ThreadUpdate(t, [threads[t] EXCEPT
                          !.kind = "completed", !.returncode = rc, !.stdout = out,
                          !.pc = "parse"])
    /\ UNCHANGED queue
    /\ WorkerFrame

\* subprocess.run raises: the process cannot be spawned (OSError) or its output is
\* not UTF-8 (UnicodeDecodeError).  Control passes to `except Exception as e`.
RunRaises(t) ==
    /\ threads[t].pc = "run"
    /\ \E e \in {SpawnErrorText, DecodeErrorText} :
           threads' = ThreadUpdate(t, [threads[t] EXCEPT
                          !.kind = "raised", !.text = e, !.pc = "except"])
    /\ UNCHANGED queue
    /\ WorkerFrame

\* What the try block puts after a completed run.
ResultsMessage(r) == <<"results", ParsePaths(r.stdout)>>

\* What the except block puts: ('error', str(e)).
ErrorMessage(r) == <<"error", r.text>>

\* strip, split, filter, self.queue.put(('results', paths)); the thread ends.
PutResults(t) ==
    /\ threads[t].pc = "parse"
    /\ queue' = Append(queue, ResultsMessage(threads[t]))
    /\ threads' = ThreadExit(t)
    /\ WorkerFrame

\* PutError as it would be without the except clause: the thread dies with the
\* exception and puts nothing.
PutErrorUncaught(t) ==
    /\ threads[t].pc = "except"
    /\ UNCHANGED queue
    /\ threads' = ThreadExit(t)
    /\ WorkerFrame

\* except Exception as e: self.queue.put(('error', str(e))); the thread ends.
PutError(t) ==
    /\ threads[t].pc = "except"
    /\ queue' = Append(queue, ErrorMessage(threads[t]))
    /\ threads' = ThreadExit(t)
    /\ WorkerFrame

PerformSearch(t, outs) ==
    \/ ReadIgnoreCase(t)
    \/ ReadExistOnly(t)
    \/ ReadBasenameOnly(t)
    \/ RunCompletes(t, outs)
    \/ RunRaises(t)
    \/ PutResults(t)
    \/ PutError(t)

\* ------------------------------------------------------------- check_queue
CurrentView ==
    [results_list |-> results_list, progress_bar |-> progress_bar,
     search_button |-> search_button, status_var |-> status_var]

Hidden == [gridded |-> FALSE, running |-> FALSE]

\* ProcessMessage with an error branch that only sets the status and leaves the
\* progress bar and the button as they are.
ProcessMessageErrorStaysBusy(v, msg) ==
    IF msg[1] = "results" THEN
        [results_list |-> v.results_list \o msg[2],
         status_var |-> <<"Found ", Len(msg[2]), " results">>,
         progress_bar |-> Hidden,
         search_button |-> "normal"]
    ELSE IF msg[1] = "error" THEN
        [v EXCEPT !.status_var = <<"Error: ", msg[2]>>]
    ELSE v

\* The body of the while loop for one message.
ProcessMessage(v, msg) ==
    IF msg[1] = "results" THEN
        [results_list |-> v.results_list \o msg[2],
         status_var |-> <<"Found ", Len(msg[2]), " results">>,
         progress_bar |-> Hidden,
         search_button |-> "normal"]
    ELSE IF msg[1] = "error" THEN
        [v EXCEPT !.status_var = <<"Error: ", msg[2]>>,
                  !.progress_bar = Hidden,
                  !.search_button = "normal"]
    ELSE v

\* GetAllNowait with `if` for `while`: one message per invocation.
GetOneNowait(q) == IF q = <<>> THEN <<>> ELSE <<Head(q)>>

\* The messages the loop's get_nowait() calls return before one raises Empty.
GetAllNowait(q) == q

\* ProcessAll with the busy state reset after the loop, message or not.
RECURSIVE ProcessAllThenReset(_, _)
ProcessAllThenReset(v, msgs) ==
    IF msgs = <<>> THEN [v EXCEPT !.progress_bar = Hidden, !.search_button = "normal"]
    ELSE ProcessAllThenReset(ProcessMessage(v, Head(msgs)), Tail(msgs))

RECURSIVE ProcessAll(_, _)
ProcessAll(v, msgs) ==
    IF msgs = <<>> THEN v ELSE ProcessAll(ProcessMessage(v, Head(msgs)), Tail(msgs))

\* ScheduleNext as it would be with root.after inside the try block, after the
\* loop: the Empty that ends the loop skips it.
ScheduleNextSkipped(pending) == pending - 1

\* The callback that runs is no longer pending; root.after(100, self.check_queue)
\* adds one.
ScheduleNext(pending) == (pending - 1) + 1

\* One invocation: drain, then root.after(100, self.check_queue).
CheckQueue ==
    LET got == GetAllNowait(queue)
        v == ProcessAll(CurrentView, got)
    IN  /\ scheduled > 0
        /\ scheduled' = ScheduleNext(scheduled)
        /\ opened' = NotOpened
        /\ UNCHANGED selection
        /\ queue' = SubSeq(queue, Len(got) + 1, Len(queue))
        /\ results_list' = v.results_list
        /\ progress_bar' = v.progress_bar
        /\ search_button' = v.search_button
        /\ status_var' = v.status_var
        /\ last' = <<"check_queue", Len(queue)>>
        /\ UNCHANGED <<search_var, ignore_case, exist_only, basename_only, threads, started>>

\* ------------------------------------------------------------- open_selected_file
\* The user clicks a row of the Listbox: that row becomes the selection.
SelectRow(i) ==
    /\ i # selection
    /\ selection' = i
    /\ last' = <<"none", 0>>
    /\ OtherHandlers
    /\ UNCHANGED <<search_var, ignore_case, exist_only, basename_only, results_list,
                   progress_bar, search_button, status_var, queue, threads, started>>

\* What `wsl wslpath -w <path>` may do when subprocess.run returns: exit 0 having
\* printed the Windows path, or exit 1 having printed nothing on stdout.
WslpathOutcomes ==
    { [returncode |-> 0, stdout |-> <<"C", "\n">>],
      [returncode |-> 1, stdout |-> <<>>] }

\* The exceptions subprocess.run raises without check=True: the program cannot be
\* spawned, or its output is not UTF-8.  It never raises CalledProcessError.
RunExceptions == {"OSError", "UnicodeDecodeError"}

WslpathCmd(wsl_path) == <<"wsl", "wslpath", "-w", wsl_path>>

ExplorerCmd(windows_path) == <<"explorer.exe", "/select,", windows_path>>

\* except subprocess.CalledProcessError as e: the only exception the handler catches.
Caught(e) == e = "CalledProcessError"

\* An exception e raised inside the try block after the commands `ran`.
OpenRaised(ran, rc, e) ==
    IF Caught(e)
    THEN /\ status_var' = <<"Error opening file: ", e>>
         /\ opened' = [ran |-> ran, returncode |-> rc, escaped |-> FALSE]
    ELSE /\ UNCHANGED status_var
         /\ opened' = [ran |-> ran, returncode |-> rc, escaped |-> TRUE]

\* OpenNoSelection as it would be without the test: selection[0] raises IndexError.
OpenNoSelectionIndexError ==
    /\ opened' = [ran |-> <<>>, returncode |-> -1, escaped |-> TRUE]
    /\ UNCHANGED status_var

\* if not selection: return
OpenNoSelection ==
    /\ opened' = NotOpened
    /\ UNCHANGED status_var

\* wslpath is run on the selected row; explorer.exe is run on whatever it printed.
OpenSelection ==
    LET wsl_path == results_list[selection]
        run1 == WslpathCmd(wsl_path)
    IN  \/ \E e \in RunExceptions : OpenRaised(<<run1>>, -1, e)
        \/ \E r \in WslpathOutcomes :
               LET run2 == ExplorerCmd(Strip(r.stdout))
               IN  \/ /\ opened' = [ran |-> <<run1, run2>>, returncode |-> r.returncode,
                                    escaped |-> FALSE]
                      /\ UNCHANGED status_var
                   \/ OpenRaised(<<run1, run2>>, r.returncode, "OSError")

OpenSelectedFile ==
    /\ IF selection = 0 THEN OpenNoSelection ELSE OpenSelection
    /\ last' = <<"open_selected_file", 0>>
    /\ UNCHANGED <<search_var, ignore_case, exist_only, basename_only, results_list,
                   progress_bar, search_button, queue, threads, started, selection,
                   scheduled>>

\* results_list.bind('<Double-Button-1>', self.open_selected_file): the first click
\* of a double click selects the row under it, so the handler runs with a row
\* selected unless the list is empty.
DoubleClick ==
    /\ selection # 0 \/ results_list = <<>>
    /\ OpenSelectedFile

\* ------------------------------------------------------------- specifications
\* Spec: the search lifecycle.  The user types, clicks Search and presses Return;
\* threads run; check_queue polls.  The option checkboxes keep their initial
\* values and the external tool's output is one of SampleStdouts.
Next ==
    \/ \E t \in Terms : SetSearchVar(t)
    \/ ClickSearchButton
    \/ PressReturn
    \/ CheckQueue
    \/ \E t \in DOMAIN threads : PerformSearch(t, SampleStdouts)

Spec == Init /\ [][Next]_vars

\* The Tk main loop runs the after() callback every 100 ms; the operating system
\* schedules every started thread; the external process exits.
Fairness ==
    /\ WF_vars(CheckQueue)
    /\ \A t \in 1..MaxSearches :
           WF_vars(t \in DOMAIN threads /\ PerformSearch(t, SampleStdouts))

LiveSpec == Spec /\ Fairness

\* OpenSpec: Spec with the user also clicking and double-clicking result rows.
OpenNext ==
    \/ Next
    \/ \E i \in 1..Len(results_list) : SelectRow(i)
    \/ DoubleClick

OpenSpec == Init /\ [][OpenNext]_vars

\* WorkerSpec: one call of perform_search, from the state start_search leaves
\* when the user has set the checkboxes at will and triggered a search for "x".
\* The user goes on clicking checkboxes while the thread runs, and the external
\* tool may print any text of at most MaxStdoutLen characters.
WorkerInit ==
    /\ search_var = "x"
    /\ ignore_case \in BOOLEAN
    /\ exist_only \in BOOLEAN
    /\ basename_only \in BOOLEAN
    /\ results_list = <<>>
    /\ progress_bar = [gridded |-> TRUE, running |-> TRUE]
    /\ search_button = "disabled"
    /\ status_var = <<"Searching...">>
    /\ queue = <<>>
    /\ threads = (1 :> NewThread("x"))
    /\ started = 1
    /\ selection = 0
    /\ scheduled = 1
    /\ opened = NotOpened
    /\ last = <<"start_search", 0>>

WorkerNext ==
    \/ ToggleIgnoreCase
    \/ ToggleExistOnly
    \/ ToggleBasenameOnly
    \/ CheckQueue
    \/ \E t \in DOMAIN threads : PerformSearch(t, Stdouts)

WorkerSpec == WorkerInit /\ [][WorkerNext]_vars

\* ------------------------------------------------------------- properties
\* Searches whose outcome check_queue has not consumed yet: the running threads
\* and the messages waiting in the queue.
InFlight == Cardinality(DOMAIN threads) + Len(queue)

Exited == DOMAIN threads \ DOMAIN threads'

IsErrorStatus(st) == Len(st) = 2 /\ st[1] = "Error: "

Idle == search_button = "normal" /\ ~progress_bar.gridded

\* C1: every call of perform_search puts exactly one message on the queue, of
\* type 'results' or 'error': a thread ends only in a step that appends one such
\* message, a step in which no thread ends appends nothing, and a thread whose
\* subprocess.run raised is in its except block, alive to report it.
C1_ExactlyOneMessage ==
    [][ /\ Cardinality(Exited) <= 1
        /\ Exited # {} =>
               /\ Len(queue') = Len(queue) + 1
               /\ SubSeq(queue', 1, Len(queue)) = queue
               /\ queue'[Len(queue')][1] \in {"results", "error"}
        /\ Exited = {} => Len(queue') <= Len(queue)
        /\ \A t \in Exited : threads[t].pc \in {"parse", "except"}
        /\ \A t \in DOMAIN threads' :
               threads'[t].kind = "raised" => threads'[t].pc = "except" ]_vars

\* A call whose process could not be spawned has ended and left its one message.
C1_Witness ==
    /\ started = 1
    /\ threads = <<>>
    /\ queue = <<<<"error", SpawnErrorText>>>>

\* C2: at most one search is in flight, whichever way the user triggers.
C2_SingleFlight == InFlight <= 1

\* C3: after check_queue has consumed an 'error' message (the last one it took),
\* the progress bar is hidden, the button is enabled, the list is empty and the
\* status contains the message.
C3_AfterFailure ==
    [][ (last'[1] = "check_queue" /\ queue # <<>> /\ queue[Len(queue)][1] = "error") =>
            /\ ~progress_bar'.gridded
            /\ search_button' = "normal"
            /\ results_list' = <<>>
            /\ \E i \in 1..Len(status_var') : status_var'[i] = queue[Len(queue)][2] ]_vars

\* C4: a failed execution (exception raised, or non-zero exit status) is
\* reported as ('error', message).
C4_FailureReported ==
    [][ \A t \in Exited :
            (threads[t].kind = "raised" \/ threads[t].returncode # 0) =>
                queue'[Len(queue')][1] = "error" ]_vars

\* C5: under fairness, a disabled button (a search was triggered) is always
\* followed by a state with the button enabled and the progress bar hidden.
C5_BusyCleared == (search_button = "disabled") ~> Idle

\* A search that ended in failure left the application idle.
C5_Witness == Idle /\ IsErrorStatus(status_var) /\ started > 0

\* C6: start_search with an empty term only sets the status message: no thread
\* is started, nothing is put on the queue, and the list, the progress bar and
\* the button are left as they were.
C6_EmptyTerm ==
    [][ (last'[1] = "start_search" /\ search_var = "") =>
            /\ status_var' = <<"Please enter a search term">>
            /\ UNCHANGED <<results_list, progress_bar, search_button,
                           queue, threads, started>> ]_vars

\* The empty term was rejected while the previous results stayed on display.
C6_Witness ==
    /\ last[1] = "start_search"
    /\ status_var = <<"Please enter a search term">>
    /\ results_list # <<>>

\* C7: one invocation of check_queue leaves none of the messages it found.
C7_DrainsAll == last[1] = "check_queue" => queue = <<>>

\* An invocation found two messages pending and consumed both.
C7_Witness == last = <<"check_queue", 2>> /\ queue = <<>>

\* C8: check_queue with an empty queue changes neither the list, the progress
\* bar, the button nor the status.
C8_EmptyPoll ==
    [][ (last'[1] = "check_queue" /\ queue = <<>>) => UNCHANGED view ]_vars

\* A poll found the queue empty while a search was running and returned with
\* the busy state still shown.
C8_Witness ==
    /\ last = <<"check_queue", 0>>
    /\ search_button = "disabled"
    /\ progress_bar.gridded
    /\ status_var = <<"Searching...">>

\* C9: the 'results' message holds exactly the non-empty lines of the captured
\* stdout, in order.
C9_NonEmptyLines ==
    [][ \A t \in Exited :
            threads[t].pc = "parse" =>
                queue'[Len(queue')] =
                    <<"results", SelectSeq(Split(threads[t].stdout), IsNonEmpty)>> ]_vars

Flag(b, flag) == IF b THEN <<flag>> ELSE <<>>

\* C10: the command is wsl locate, then --ignore-case, --existing, --basename
\* for the toggles that were on, in that order, then the term.
C10_Command ==
    \A t \in DOMAIN threads :
        threads[t].pc \in {"run", "parse", "except"} =>
            /\ Len(threads[t].got) = 3
            /\ threads[t].cmd = <<"wsl", "locate">>
                                 \o Flag(threads[t].got[1], "--ignore-case")
                                 \o Flag(threads[t].got[2], "--existing")
                                 \o Flag(threads[t].got[3], "--basename")
                                 \o <<threads[t].term>>

\* ignoreCase on, existingOnly off, basenameOnly on, term "x".
C10_Witness ==
    \E t \in DOMAIN threads :
        /\ threads[t].pc = "run"
        /\ threads[t].got = <<TRUE, FALSE, TRUE>>
        /\ threads[t].cmd = <<"wsl", "locate", "--ignore-case", "--basename", "x">>

IsFoundStatus(st) == Len(st) = 3 /\ st[1] = "Found "

\* C11: when check_queue has consumed a 'results' message (the last one it
\* took), the list shows exactly its paths, in order, and the status reports
\* their number.
C11_ResultsDisplayed ==
    [][ (last'[1] = "check_queue" /\ queue # <<>> /\ queue[Len(queue)][1] = "results") =>
            /\ results_list' = queue[Len(queue)][2]
            /\ status_var' = <<"Found ", Len(queue[Len(queue)][2]), " results">> ]_vars

\* The path translation of the latest open_selected_file failed: wslpath could
\* not be run, or exited with an error.
TranslationFailed ==
    /\ last[1] = "open_selected_file"
    /\ opened.ran # <<>>
    /\ opened.returncode # 0

\* C12: when the path translation fails, the status reports the error and no
\* exception leaves open_selected_file.
C12_TranslationFailureReported ==
    TranslationFailed =>
        /\ ~opened.escaped
        /\ Len(status_var) = 2
        /\ status_var[1] = "Error opening file: "

\* C13: open_selected_file with no row selected runs no process, raises nothing
\* and leaves the status, the list, the progress bar and the button unchanged.
C13_NoSelectionNoOp ==
    [][ (last'[1] = "open_selected_file" /\ selection = 0) =>
            /\ opened'.ran = <<>>
            /\ ~opened'.escaped
            /\ UNCHANGED <<view, queue, threads, selection>> ]_vars

\* A double click on the empty list of a search that found nothing.
C13_Witness ==
    /\ last[1] = "open_selected_file"
    /\ selection = 0
    /\ opened = NotOpened
    /\ status_var = <<"Found ", 0, " results">>

\* C14: the flags of the command are the values the checkboxes had when
\* start_search ran.
C14_RequestFixedAtTrigger ==
    \A t \in DOMAIN threads :
        threads[t].pc \in {"run", "parse", "except"} =>
            threads[t].got = threads[t].at_start

\* C15: explorer.exe is started only when the translation succeeded: wslpath
\* exited 0 and printed a path.
C15_ExplorerOnlyOnSuccess ==
    (last[1] = "open_selected_file" /\ Len(opened.ran) = 2) =>
        /\ opened.returncode = 0
        /\ opened.ran[2][3] # <<>>

\* C16: the progress bar is shown exactly when some search is in flight.
C16_BusyIffInFlight == progress_bar.gridded <=> InFlight > 0

\* C17: start_search with a non-empty term disables the button, shows the
\* progress bar, empties the list and starts exactly one thread, with that term.
C17_BeginSearch ==
    [][ (last'[1] = "start_search" /\ search_var # "") =>
            /\ search_button' = "disabled"
            /\ progress_bar'.gridded
            /\ results_list' = <<>>
            /\ \E t \in DOMAIN threads' \ DOMAIN threads :
                   /\ DOMAIN threads' = DOMAIN threads \cup {t}
                   /\ threads'[t].term = search_var
                   /\ threads'[t].pc = "ignore_case"
            /\ \A t \in DOMAIN threads : threads'[t] = threads[t]
            /\ UNCHANGED queue ]_vars

\* The second search has just been triggered, after the first one's results
\* were shown: the list is empty again and one thread runs.
C17_Witness ==
    /\ last[1] = "start_search"
    /\ started = 2
    /\ InFlight = 1
    /\ results_list = <<>>
    /\ search_button = "disabled"

C19_CountMatchesList == IsFoundStatus(status_var) => Len(results_list) = status_var[2]

\* C20: the button is enabled exactly when the progress bar is hidden.
C20_ButtonIffHidden == (search_button = "normal") <=> ~progress_bar.gridded

\* open_selected_file ran while a search was running and left the button
\* disabled and the progress bar shown.
C20_Witness ==
    /\ last[1] = "open_selected_file"
    /\ search_button = "disabled"
    /\ progress_bar.gridded

====
